---- MODULE Spec2Model ----
(***************************************************************************)
(* Model of Adafruit_IO/mqtt_client.py: the MQTTClient facade over a       *)
(* paho-mqtt transport.  The state is the client object (connection flag   *)
(* and the three user callback slots); every step is one call of a public  *)
(* method by the caller or one callback delivered by the transport.  The   *)
(* remaining variables record what the latest step did: the transport      *)
(* calls it issued, the user callbacks it invoked, what it returned and    *)
(* what it raised.  Strings that the code formats or slices are sequences  *)
(* of one-character strings.                                               *)
(***************************************************************************)
EXTENDS Integers, Sequences, FiniteSets, TLC

VARIABLES
    _connected,     \* self._connected
    on_connect,     \* self.on_connect
    on_disconnect,  \* self.on_disconnect
    on_message,     \* self.on_message
    op,             \* name of the latest operation
    args,           \* its arguments
    pre,            \* self._connected when it started
    ret,            \* <<>> when it returned None, <<v>> when it returned v
    raised,         \* the exception it raised, NoError if none
    calls,          \* the calls it made on self._client, in order
    invoked,        \* the user callbacks it invoked, in order
    connect_ok_seen \* a connect callback with rc = 0 has been delivered

vars == <<_connected, on_connect, on_disconnect, on_message, op, args, pre,
          ret, raised, calls, invoked, connect_ok_seen>>

client == <<_connected, on_connect, on_disconnect, on_message>>

(* ------------------------------ bounds --------------------------------- *)
MaxFeedLen == 3
MaxRc == 3

(* ----------------------------- constants ------------------------------- *)
SERVICE_HOST == "io.adafruit.com"
SERVICE_PORT == 1883
KEEP_ALIVE_SEC == 3600

None == "None"
Handlers == {"cbA", "cbB"}

API_FEEDS == <<"a", "p", "i", "/", "f", "e", "e", "d", "s", "/">>
STREAMS_RECEIVE == <<"/", "s", "t", "r", "e", "a", "m", "s", "/", "r", "e", "c", "e", "i", "v", "e", ".", "j", "s", "o", "n">>
STREAMS_SEND == <<"/", "s", "t", "r", "e", "a", "m", "s", "/", "s", "e", "n", "d", ".", "j", "s", "o", "n">>

(* ------------------------------ inputs --------------------------------- *)
FeedChars == {"a", "/"}

RECURSIVE SeqsUpTo(_)
SeqsUpTo(n) ==
    IF n = 0 THEN {<<>>}
    ELSE LET S == SeqsUpTo(n - 1)
         IN  S \cup {Append(s, c) : s \in {t \in S : Len(t) = n - 1}, c \in FeedChars}

FeedIds == SeqsUpTo(MaxFeedLen)
Payloads == {"v1", "v2"}
ReasonCodes == 0..MaxRc
Timeouts == {"1.0", "0.25"}

\* keyword arguments of connect(**kwargs), as sets of <<name, value>>
KwargsSet ==
    { {},
      {<<"bind_address", "10.0.0.1">>},
      {<<"port", "8883">>},
      {<<"bind_address", "10.0.0.1">>, <<"keepalive", "60">>} }

KwNames(kwargs) == {kv[1] : kv \in kwargs}

(* --------------------------- string helpers ---------------------------- *)
\* str.startswith
StartsWith(s, p) == Len(s) >= Len(p) /\ SubSeq(s, 1, Len(p)) = p

\* str.endswith
EndsWith(s, p) == Len(s) >= Len(p) /\ SubSeq(s, Len(s) - Len(p) + 1, Len(s)) = p

\* the slice taken one character short of the suffix, s[10:-20]
SliceFeedId_short(s) ==
    LET start == IF Len(s) < 10 THEN Len(s) ELSE 10
        stop  == IF Len(s) - 20 < 0 THEN 0 ELSE Len(s) - 20
    IN  IF stop <= start THEN <<>> ELSE SubSeq(s, start + 1, stop)

\* the Python slice s[10:-21]
SliceFeedId(s) ==
    LET start == IF Len(s) < 10 THEN Len(s) ELSE 10
        stop  == IF Len(s) - 21 < 0 THEN 0 ELSE Len(s) - 21
    IN  IF stop <= start THEN <<>> ELSE SubSeq(s, start + 1, stop)

\* 'api/feeds/{0}/streams/receive.json'.format(feed_id)
ReceiveTopic(feed_id) == API_FEEDS \o feed_id \o STREAMS_RECEIVE

\* 'api/feeds/{0}/streams/send.json'.format(feed_id)
SendTopic(feed_id) == API_FEEDS \o feed_id \o STREAMS_SEND

OtherTopics ==
    { <<"o", "t", "h", "e", "r", "/", "t", "o", "p", "i", "c">>,
      API_FEEDS,
      STREAMS_RECEIVE,
      <<"x", "p", "i", "/", "f", "e", "e", "d", "s", "/">> \o <<"a">> \o STREAMS_RECEIVE,
      SubSeq(ReceiveTopic(<<"a">>), 1, 30) }

Topics == {ReceiveTopic(f) : f \in FeedIds} \cup {SendTopic(f) : f \in FeedIds}
          \cup OtherTopics

(* ------------------------------ outcomes ------------------------------- *)
NoError == [type |-> "None", msg |-> "", rc |-> -1]

ConnectError(rc) ==
    [type |-> "RuntimeError", msg |-> "Error connecting to Adafruit IO with rc: {0}", rc |-> rc]

DisconnectError(rc) ==
    [type |-> "RuntimeError", msg |-> "Unexpected disconnect with rc: {0}", rc |-> rc]

\* a keyword passed both explicitly and through **kwargs
KeywordError ==
    [type |-> "TypeError", msg |-> "got multiple values for keyword argument", rc |-> -1]

\* handler(self, *a), called while self._connected = flag
Invocation(slot, handler, a, flag) ==
    [slot |-> slot, handler |-> handler, args |-> a, connected |-> flag]

TransportCall(fn, a) == [fn |-> fn, args |-> a]

Observe(name, a, result, err, tcalls, inv) ==
    /\ op' = name
    /\ args' = a
    /\ pre' = _connected
    /\ ret' = result
    /\ raised' = err
    /\ calls' = tcalls
    /\ invoked' = inv

(* ------------------------------- Init ---------------------------------- *)
Init ==
    /\ _connected = FALSE
    /\ on_connect = None
    /\ on_disconnect = None
    /\ on_message = None
    /\ op = "__init__"
    /\ args = <<>>
    /\ pre = FALSE
    /\ ret = <<>>
    /\ raised = NoError
    /\ calls = <<TransportCall("username_pw_set", <<"key">>)>>
    /\ invoked = <<>>
    /\ connect_ok_seen = FALSE

(* ------------------- assignments to the callback slots ----------------- *)
set_on_connect(h) ==
    /\ on_connect' = h
    /\ UNCHANGED <<_connected, on_disconnect, on_message, connect_ok_seen>>
    /\ Observe("set_on_connect", <<h>>, <<>>, NoError, <<>>, <<>>)

set_on_disconnect(h) ==
    /\ on_disconnect' = h
    /\ UNCHANGED <<_connected, on_connect, on_message, connect_ok_seen>>
    /\ Observe("set_on_disconnect", <<h>>, <<>>, NoError, <<>>, <<>>)

set_on_message(h) ==
    /\ on_message' = h
    /\ UNCHANGED <<_connected, on_connect, on_disconnect, connect_ok_seen>>
    /\ Observe("set_on_message", <<h>>, <<>>, NoError, <<>>, <<>>)

(* -------------------------- transport callbacks ------------------------ *)
\* the flag set before the result code is looked at
_mqtt_connect_early_flag(rc) ==
    /\ _connected' = TRUE
    /\ IF rc = 0
       THEN /\ connect_ok_seen' = TRUE
            /\ Observe("_mqtt_connect", <<rc>>, <<>>, NoError, <<>>,
                       IF on_connect # None
                       THEN <<Invocation("on_connect", on_connect, <<>>, TRUE)>>
                       ELSE <<>>)
       ELSE /\ UNCHANGED connect_ok_seen
            /\ Observe("_mqtt_connect", <<rc>>, <<>>, ConnectError(rc), <<>>, <<>>)
    /\ UNCHANGED <<on_connect, on_disconnect, on_message>>

_mqtt_connect(rc) ==
    /\ IF rc = 0
       THEN /\ _connected' = TRUE
            /\ connect_ok_seen' = TRUE
            /\ Observe("_mqtt_connect", <<rc>>, <<>>, NoError, <<>>,
                       IF on_connect # None
                       THEN <<Invocation("on_connect", on_connect, <<>>, TRUE)>>
                       ELSE <<>>)
       ELSE /\ UNCHANGED <<_connected, connect_ok_seen>>
            /\ Observe("_mqtt_connect", <<rc>>, <<>>, ConnectError(rc), <<>>, <<>>)
    /\ UNCHANGED <<on_connect, on_disconnect, on_message>>

\* the exception raised before the flag is cleared
_mqtt_disconnect_raise_first(rc) ==
    /\ IF rc # 0
       THEN /\ UNCHANGED _connected
            /\ Observe("_mqtt_disconnect", <<rc>>, <<>>, DisconnectError(rc), <<>>, <<>>)
       ELSE /\ _connected' = FALSE
            /\ Observe("_mqtt_disconnect", <<rc>>, <<>>, NoError, <<>>,
                       IF on_disconnect # None
                       THEN <<Invocation("on_disconnect", on_disconnect, <<>>, FALSE)>>
                       ELSE <<>>)
    /\ UNCHANGED <<on_connect, on_disconnect, on_message, connect_ok_seen>>

\* the flag cleared only after on_disconnect has run
_mqtt_disconnect_clear_last(rc) ==
    /\ _connected' = FALSE
    /\ IF rc # 0
       THEN Observe("_mqtt_disconnect", <<rc>>, <<>>, DisconnectError(rc), <<>>, <<>>)
       ELSE Observe("_mqtt_disconnect", <<rc>>, <<>>, NoError, <<>>,
                    IF on_disconnect # None
                    THEN <<Invocation("on_disconnect", on_disconnect, <<>>, _connected)>>
                    ELSE <<>>)
    /\ UNCHANGED <<on_connect, on_disconnect, on_message, connect_ok_seen>>

\* an unexpected disconnect answered by reconnecting
_mqtt_disconnect_reconnect(rc) ==
    /\ _connected' = FALSE
    /\ IF rc # 0
       THEN Observe("_mqtt_disconnect", <<rc>>, <<>>, NoError,
                    <<TransportCall("connect",
                         <<SERVICE_HOST, SERVICE_PORT, KEEP_ALIVE_SEC, {}>>)>>,
                    <<>>)
       ELSE Observe("_mqtt_disconnect", <<rc>>, <<>>, NoError, <<>>,
                    IF on_disconnect # None
                    THEN <<Invocation("on_disconnect", on_disconnect, <<>>, FALSE)>>
                    ELSE <<>>)
    /\ UNCHANGED <<on_connect, on_disconnect, on_message, connect_ok_seen>>

_mqtt_disconnect(rc) ==
    /\ _connected' = FALSE
    /\ IF rc # 0
       THEN Observe("_mqtt_disconnect", <<rc>>, <<>>, DisconnectError(rc), <<>>, <<>>)
       ELSE Observe("_mqtt_disconnect", <<rc>>, <<>>, NoError, <<>>,
                    IF on_disconnect # None
                    THEN <<Invocation("on_disconnect", on_disconnect, <<>>, FALSE)>>
                    ELSE <<>>)
    /\ UNCHANGED <<on_connect, on_disconnect, on_message, connect_ok_seen>>

\* the condition guarding the dispatch in _mqtt_message
Dispatches(handler, topic) ==
    handler # None /\ StartsWith(topic, API_FEEDS) /\ Len(topic) >= 31

_mqtt_message(topic, payload) ==
    /\ Observe("_mqtt_message", <<topic, payload>>, <<>>, NoError, <<>>,
               IF Dispatches(on_message, topic)
               THEN <<Invocation("on_message", on_message,
                                 <<SliceFeedId(topic), payload>>, _connected)>>
               ELSE <<>>)
    /\ UNCHANGED <<client, connect_ok_seen>>

(* ----------------------------- public methods -------------------------- *)
\* connect without the already-connected check
connect_unguarded(kwargs) ==
    /\ IF KwNames(kwargs) \cap {"port", "keepalive"} # {}
       THEN Observe("connect", <<kwargs>>, <<>>, KeywordError, <<>>, <<>>)
       ELSE Observe("connect", <<kwargs>>, <<>>, NoError,
                    <<TransportCall("connect",
                         <<SERVICE_HOST, SERVICE_PORT, KEEP_ALIVE_SEC, kwargs>>)>>,
                    <<>>)
    /\ UNCHANGED <<client, connect_ok_seen>>

connect(kwargs) ==
    /\ IF _connected
       THEN Observe("connect", <<kwargs>>, <<>>, NoError, <<>>, <<>>)
       ELSE IF KwNames(kwargs) \cap {"port", "keepalive"} # {}
            THEN Observe("connect", <<kwargs>>, <<>>, KeywordError, <<>>, <<>>)
            ELSE Observe("connect", <<kwargs>>, <<>>, NoError,
                         <<TransportCall("connect",
                              <<SERVICE_HOST, SERVICE_PORT, KEEP_ALIVE_SEC, kwargs>>)>>,
                         <<>>)
    /\ UNCHANGED <<client, connect_ok_seen>>

is_connected ==
    /\ Observe("is_connected", <<>>, <<_connected>>, NoError, <<>>, <<>>)
    /\ UNCHANGED <<client, connect_ok_seen>>

\* disconnect without the connected check
disconnect_unguarded ==
    /\ Observe("disconnect", <<>>, <<>>, NoError,
               <<TransportCall("disconnect", <<>>)>>, <<>>)
    /\ UNCHANGED <<client, connect_ok_seen>>

\* disconnect clearing the flag itself
disconnect_clears_flag ==
    /\ Observe("disconnect", <<>>, <<>>, NoError,
               IF _connected THEN <<TransportCall("disconnect", <<>>)>> ELSE <<>>,
               <<>>)
    /\ _connected' = FALSE
    /\ UNCHANGED <<on_connect, on_disconnect, on_message, connect_ok_seen>>

disconnect ==
    /\ Observe("disconnect", <<>>, <<>>, NoError,
               IF _connected THEN <<TransportCall("disconnect", <<>>)>> ELSE <<>>,
               <<>>)
    /\ UNCHANGED <<client, connect_ok_seen>>

loop_background ==
    /\ Observe("loop_background", <<>>, <<>>, NoError,
               <<TransportCall("loop_start", <<>>)>>, <<>>)
    /\ UNCHANGED <<client, connect_ok_seen>>

loop_blocking ==
    /\ Observe("loop_blocking", <<>>, <<>>, NoError,
               <<TransportCall("loop_forever", <<>>)>>, <<>>)
    /\ UNCHANGED <<client, connect_ok_seen>>

loop(timeout_sec) ==
    /\ Observe("loop", <<timeout_sec>>, <<>>, NoError,
               <<TransportCall("loop", <<timeout_sec>>)>>, <<>>)
    /\ UNCHANGED <<client, connect_ok_seen>>

subscribe(feed_id) ==
    /\ Observe("subscribe", <<feed_id>>, <<>>, NoError,
               <<TransportCall("subscribe", <<ReceiveTopic(feed_id)>>)>>, <<>>)
    /\ UNCHANGED <<client, connect_ok_seen>>

\* publish skipped while not connected
publish_if_connected(feed_id, value) ==
    /\ Observe("publish", <<feed_id, value>>, <<>>, NoError,
               IF _connected
               THEN <<TransportCall("publish", <<SendTopic(feed_id), value>>)>>
               ELSE <<>>,
               <<>>)
    /\ UNCHANGED <<client, connect_ok_seen>>

publish(feed_id, value) ==
    /\ Observe("publish", <<feed_id, value>>, <<>>, NoError,
               <<TransportCall("publish", <<SendTopic(feed_id), value>>)>>, <<>>)
    /\ UNCHANGED <<client, connect_ok_seen>>

(* ------------------------------- Next ---------------------------------- *)
Next ==
    \/ \E h \in Handlers \cup {None} : set_on_connect(h)
    \/ \E h \in Handlers \cup {None} : set_on_disconnect(h)
    \/ \E h \in Handlers \cup {None} : set_on_message(h)
    \/ \E rc \in ReasonCodes : _mqtt_connect(rc)
    \/ \E rc \in ReasonCodes : _mqtt_disconnect(rc)
    \/ \E topic \in Topics, payload \in Payloads : _mqtt_message(topic, payload)
    \/ \E kwargs \in KwargsSet : connect(kwargs)
    \/ is_connected
    \/ disconnect
    \/ loop_background
    \/ loop_blocking
    \/ \E timeout_sec \in Timeouts : loop(timeout_sec)
    \/ \E feed_id \in FeedIds : subscribe(feed_id)
    \/ \E feed_id \in FeedIds, value \in Payloads : publish(feed_id, value)

Spec == Init /\ [][Next]_vars

(* ------------------------------ properties ----------------------------- *)

\* C1: is_connected() is false from construction until the first connect
\* callback with reason code 0; the flag goes from false to true only in a
\* connect callback with reason code 0; and right after any disconnect
\* callback, whatever its reason code, the flag is false.
ThmC1_FlagLifecycle ==
    /\ (~connect_ok_seen => ~_connected)
    /\ (_connected /\ ~pre => op = "_mqtt_connect" /\ args[1] = 0)
    /\ (op = "_mqtt_disconnect" => ~_connected)

WitC1_UnexpectedDisconnectWhileConnected ==
    op = "_mqtt_disconnect" /\ args[1] # 0 /\ pre /\ connect_ok_seen /\ ~_connected

\* C2: a message event invokes on_message only if the topic starts with
\* api/feeds/ and ends with /streams/receive.json; for every other topic
\* on_message is not invoked; and no error is raised.
CexC2_DispatchOnlyInboundTopics ==
    op = "_mqtt_message" =>
        /\ raised = NoError
        /\ (invoked # <<>> =>
               /\ StartsWith(args[1], <<"a", "p", "i", "/", "f", "e", "e", "d", "s", "/">>)
               /\ EndsWith(args[1], <<"/", "s", "t", "r", "e", "a", "m", "s", "/", "r", "e", "c", "e", "i", "v", "e", ".", "j", "s", "o", "n">>))

\* C3: subscribe(F) requests the topic api/feeds/F/streams/receive.json, and
\* a message event on the topic subscribe(F) requests, with payload P,
\* invokes the registered on_message exactly once with feed id F and
\* payload P.
ThmC3_SubscribeMessageRoundTrip ==
    /\ (op = "subscribe" =>
           /\ Len(calls) = 1
           /\ calls[1].fn = "subscribe"
           /\ LET t == calls[1].args[1]
              IN  /\ Len(t) = 31 + Len(args[1])
                  /\ SubSeq(t, 1, 10) = <<"a", "p", "i", "/", "f", "e", "e", "d", "s", "/">>
                  /\ SubSeq(t, 11, 10 + Len(args[1])) = args[1]
                  /\ SubSeq(t, 11 + Len(args[1]), Len(t)) = <<"/", "s", "t", "r", "e", "a", "m", "s", "/", "r", "e", "c", "e", "i", "v", "e", ".", "j", "s", "o", "n">>)
    /\ (op = "_mqtt_message" /\ on_message # None =>
           \A F \in FeedIds :
               args[1] = ReceiveTopic(F) =>
                   /\ Len(invoked) = 1
                   /\ invoked[1].slot = "on_message"
                   /\ invoked[1].handler = on_message
                   /\ invoked[1].args = <<F, args[2]>>)

WitC3_MessageOnSubscribedTopic ==
    /\ op = "_mqtt_message"
    /\ on_message = "cbB"
    /\ args[1] = ReceiveTopic(<<"a", "/", "a">>)
    /\ Len(invoked) = 1
    /\ invoked[1].args[1] = <<"a", "/", "a">>

ThmC5_DisconnectIdempotent ==
    [][op' = "disconnect" =>
          IF _connected
          THEN /\ Len(calls') = 1
               /\ calls'[1].fn = "disconnect"
               /\ calls'[1].args = <<>>
          ELSE calls' = <<>> /\ client' = client /\ raised' = NoError]_vars

WitC5_DisconnectAfterLostConnection ==
    op = "disconnect" /\ ~pre /\ connect_ok_seen /\ calls = <<>>

\* C6: a connect callback with a non-zero reason code rc raises the
\* connection error carrying rc, leaves the flag as it was and does not
\* invoke on_connect; with reason code 0 it raises nothing and invokes the
\* registered on_connect exactly once.
ThmC6_ConnectCallback ==
    op = "_mqtt_connect" =>
        IF args[1] # 0
        THEN /\ raised.type = "RuntimeError"
             /\ raised.msg = "Error connecting to Adafruit IO with rc: {0}"
             /\ raised.rc = args[1]
             /\ _connected = pre
             /\ invoked = <<>>
        ELSE /\ raised = NoError
             /\ _connected
             /\ (on_connect # None =>
                    /\ Len(invoked) = 1
                    /\ invoked[1].slot = "on_connect"
                    /\ invoked[1].handler = on_connect)
             /\ (on_connect = None => invoked = <<>>)

WitC6_RefusedConnect ==
    op = "_mqtt_connect" /\ args[1] = 3 /\ ~pre /\ ~_connected /\ raised.rc = 3

\* C7: a disconnect callback clears the flag before anything else: with
\* reason code 0 the registered on_disconnect runs exactly once, seeing the
\* flag already false, and nothing is raised; with a non-zero reason code rc
\* the connection-lost error carrying rc is raised, on_disconnect is not
\* invoked and the flag is false afterwards.
ThmC7_DisconnectCallback ==
    op = "_mqtt_disconnect" =>
        /\ ~_connected
        /\ IF args[1] = 0
           THEN /\ raised = NoError
                /\ (on_disconnect # None =>
                       /\ Len(invoked) = 1
                       /\ invoked[1].slot = "on_disconnect"
                       /\ invoked[1].handler = on_disconnect
                       /\ invoked[1].connected = FALSE)
                /\ (on_disconnect = None => invoked = <<>>)
           ELSE /\ raised.type = "RuntimeError"
                /\ raised.msg = "Unexpected disconnect with rc: {0}"
                /\ raised.rc = args[1]
                /\ invoked = <<>>

WitC7_CleanDisconnectWithHandler ==
    op = "_mqtt_disconnect" /\ args[1] = 0 /\ pre /\ Len(invoked) = 1

\* C8: publish(F, V) issues exactly one transport publish, to the topic
\* api/feeds/F/streams/send.json with payload V, and returns nothing,
\* whatever the connection flag.
ThmC8_Publish ==
    op = "publish" =>
        /\ ret = <<>>
        /\ raised = NoError
        /\ Len(calls) = 1
        /\ calls[1].fn = "publish"
        /\ calls[1].args[2] = args[2]
        /\ LET t == calls[1].args[1]
           IN  /\ Len(t) = 28 + Len(args[1])
               /\ SubSeq(t, 1, 10) = <<"a", "p", "i", "/", "f", "e", "e", "d", "s", "/">>
               /\ SubSeq(t, 11, 10 + Len(args[1])) = args[1]
               /\ SubSeq(t, 11 + Len(args[1]), Len(t)) = <<"/", "s", "t", "r", "e", "a", "m", "s", "/", "s", "e", "n", "d", ".", "j", "s", "o", "n">>

WitC8_PublishWhileNotConnected ==
    op = "publish" /\ ~_connected /\ args[1] = <<"a", "/">> /\ Len(calls) = 1

\* C9: only the connect and disconnect callbacks change the connection
\* flag; in particular disconnect() on a connected client leaves it true.
ThmC9_FlagFrame ==
    [][/\ (_connected' # _connected => op' \in {"_mqtt_connect", "_mqtt_disconnect"})
       /\ (op' = "disconnect" /\ _connected => _connected')]_vars

WitC9_StillConnectedAfterDisconnectCall ==
    op = "disconnect" /\ pre /\ _connected /\ Len(calls) = 1

\* C10: no connect, disconnect or message callback issues a transport
\* operation, and every transport connect is issued by a connect() call
\* made while the flag is false, one per call.
ThmC10_NoReconnect ==
    /\ (op \in {"_mqtt_connect", "_mqtt_disconnect", "_mqtt_message"} => calls = <<>>)
    /\ \A i \in 1..Len(calls) :
           calls[i].fn = "connect" => op = "connect" /\ ~pre /\ Len(calls) = 1

WitC10_LostConnectionNoReconnect ==
    op = "_mqtt_disconnect" /\ args[1] # 0 /\ pre /\ calls = <<>> /\ raised.rc = args[1]

TypeOK ==
    /\ _connected \in BOOLEAN
    /\ on_connect \in Handlers \cup {None}
    /\ on_disconnect \in Handlers \cup {None}
    /\ on_message \in Handlers \cup {None}
    /\ pre \in BOOLEAN
    /\ connect_ok_seen \in BOOLEAN
    /\ Len(calls) <= 1
    /\ Len(invoked) <= 1
====
